---- MODULE Spec2Model ----
(***************************************************************************)
(* GANVolumeRenderer (threestudio/models/renderers/gan_volume_renderer.py) *)
(* as a state machine.  One orchestrator object receives forward calls and *)
(* the lifecycle calls update_step / train / eval.  Tensors are modelled   *)
(* by the buffer that stores them, the channel offset of the view, their   *)
(* shape, the operation that produced them and the buffers that operation  *)
(* read, so that aliasing, data flow and shapes can be checked.            *)
(***************************************************************************)
EXTENDS Integers, Sequences, FiniteSets, TLC

\* ---- bounds of the model ------------------------------------------------
MaxB == 2            \* batch sizes 1..MaxB
MaxH == 8            \* heights and widths 1..MaxH
MaxCalls == 3        \* lifecycle calls made on the orchestrator

\* ---- program constants --------------------------------------------------
Scale == 4           \* H // 4, W // 4
RGB == 3             \* [..., :3] / [..., 3:]
GenInCh == 7         \* Generator(in_channels=7): 3 rgb + sampled latent
NumLevels == 3       \* torch.randint(0, 3, (1,))
EncRes == 224        \* F.interpolate(..., (224, 224))
NClass == 64         \* GlobalEncoder(n_class=64)
OutCh == 3           \* Generator(out_ch=3)

ZCh == GenInCh - RGB \* channels of a sampled latent map

\* ---- tensors ------------------------------------------------------------
\* Python's None
None == [buf |-> 0, off |-> 0, shape |-> <<>>, op |-> "None", of |-> {}, grad |-> FALSE]

\* a freshly allocated tensor
Tensor(b, shape, op, of, grad) ==
    [buf |-> b, off |-> 0, shape |-> shape, op |-> op, of |-> of, grad |-> grad]

\* x.permute(p0, p1, p2, p3): a view, same buffer
Permute(t, p) ==
    [t EXCEPT !.shape = <<t.shape[p[1] + 1], t.shape[p[2] + 1],
                          t.shape[p[3] + 1], t.shape[p[4] + 1]>>]

\* x[..., :n]: a view on the first n channels (channels-last layout)
SliceTo(t, n) == [t EXCEPT !.shape = <<t.shape[1], t.shape[2], t.shape[3], n>>]

\* x[..., n:]: a view on the remaining channels
SliceFrom(t, n) ==
    [t EXCEPT !.off = t.off + n,
              !.shape = <<t.shape[1], t.shape[2], t.shape[3], t.shape[4] - n>>]

\* mutant of Clone: the clone is left out and the view itself is stored
Clone_Alias(t, b) == t

\* x.clone(): a new buffer with the same contents
Clone(t, b) == [t EXCEPT !.buf = b, !.off = 0, !.op = "clone", !.of = {t.buf}]

\* x.detach(): same buffer, cut from the autograd graph
Detach(t) == [t EXCEPT !.grad = FALSE]

\* F.interpolate(x, size) on an N x C x H x W tensor raises when a target
\* (or source) spatial size is not positive
InterpolateOk(t, size) ==
    /\ size[1] > 0 /\ size[2] > 0
    /\ t.shape[3] > 0 /\ t.shape[4] > 0

Interpolate(t, size, b) ==
    Tensor(b, <<t.shape[1], t.shape[2], size[1], size[2]>>, "interpolate", {t.buf}, t.grad)

\* torch.cat([x, y], dim=1)
Cat(x, y, b) ==
    Tensor(b, <<x.shape[1], x.shape[2] + y.shape[2], x.shape[3], x.shape[4]>>,
           "cat", {x.buf, y.buf}, x.grad \/ y.grad)

\* torch.randint(lo, hi, (1,)).item()
RandInt(lo, hi) == lo .. (hi - 1)

\* ---- collaborators ------------------------------------------------------
\* DiagonalGaussianDistribution(parameters)
DiagonalGaussianDistribution(parameters) == [parameters |-> parameters]

NoDist == DiagonalGaussianDistribution(None)

\* posterior.sample(): a new N x C/2 x H x W tensor computed from the
\* mean / log-variance halves of the parameters
Sample(d, b) ==
    Tensor(b, <<d.parameters.shape[1], d.parameters.shape[2] \div 2,
                d.parameters.shape[3], d.parameters.shape[4]>>,
           "sample", {d.parameters.buf}, d.parameters.grad)

\* self.global_encoder(x): a class code per batch element
GlobalEncoder(x, b) == Tensor(b, <<x.shape[1], NClass>>, "global_encoder", {x.buf}, TRUE)

\* self.local_encoder(x): mean / log-variance maps at a quarter of the resolution
LocalEncoder(x, b) ==
    Tensor(b, <<x.shape[1], 2 * ZCh, x.shape[3] \div Scale, x.shape[4] \div Scale>>,
           "local_encoder", {x.buf}, TRUE)

\* self.generator(x, code): an RGB image at four times the input resolution
Generator(x, code, b) ==
    Tensor(b, <<x.shape[1], OutCh, Scale * x.shape[3], Scale * x.shape[4]>>,
           "generator", {x.buf, code.buf}, TRUE)

\* the record self.base_renderer(...) returns: the composite (3 rgb channels
\* and the latent map), opacity and depth, at the resolution of the rays
BaseRenderer(ro, rd, light, bg, b) ==
    LET of == {ro.buf, rd.buf, light.buf} \cup (IF bg = None THEN {} ELSE {bg.buf})
        s  == ro.shape
    IN  [comp_rgb |-> Tensor(b, <<s[1], s[2], s[3], RGB + 2 * ZCh>>, "base_renderer", of, TRUE),
         opacity  |-> Tensor(b + 1, <<s[1], s[2], s[3], 1>>, "base_renderer", of, TRUE),
         depth    |-> Tensor(b + 2, <<s[1], s[2], s[3], 1>>, "base_renderer", of, TRUE)]

\* one recorded call of a collaborator
Call(fn, args, res) == [fn |-> fn, args |-> args, res |-> res]

\* out[k] = v on a Python dict
Put(d, k, v) == [x \in (DOMAIN d) \cup {k} |-> IF x = k THEN v ELSE d[x]]

EmptyDict == [x \in {} |-> None]

\* ---- state --------------------------------------------------------------
VARIABLES
    pc,               \* position of the forward call in progress, "idle" between calls
    args,             \* the arguments of the forward call
    dims,             \* B, H, W unpacked from rays_o.shape
    generator_level,  \* generator_level of the current / last forward call
    draws,            \* torch.randint calls made by the forward call
    heap,             \* next free buffer
    rays_o, rays_d,   \* locals of forward
    out, comp_rgb, latent, posterior, z_map, lr_rgb, comp_gan_rgb,
    calls,            \* collaborator calls made by the forward call
    ret,              \* the record forward returns
    training,         \* nn.Module.training of the orchestrator and its own submodules
    base_training,    \* nn.Module.training of base_renderer
    base_step,        \* arguments of the last update_step base_renderer has seen
    base_log,         \* lifecycle calls base_renderer has received
    own_log           \* lifecycle calls the orchestrator has received

locals == <<rays_o, rays_d, out, comp_rgb, latent, posterior, z_map, lr_rgb, comp_gan_rgb>>
frame == <<pc, args, dims, generator_level, draws, heap, locals, calls, ret>>
lifecycle == <<training, base_training, base_step, base_log, own_log>>
vars == <<frame, lifecycle>>

Modules == {"self", "generator", "local_encoder", "global_encoder", "discriminator"}
Steps == 0 .. 1

NoArgs == [rays_o |-> None, rays_d |-> None, light_positions |-> None,
           bg_color |-> None, gt_rgb |-> None, multi_level_guidance |-> FALSE]

ClearLocals ==
    /\ rays_o' = None /\ rays_d' = None /\ out' = EmptyDict
    /\ comp_rgb' = None /\ latent' = None /\ posterior' = NoDist
    /\ z_map' = None /\ lr_rgb' = None /\ comp_gan_rgb' = None

Init ==
    /\ pc = "idle" /\ args = NoArgs /\ dims = <<0, 0, 0>>
    /\ generator_level = 0 /\ draws = 0 /\ heap = 1
    /\ rays_o = None /\ rays_d = None /\ out = EmptyDict
    /\ comp_rgb = None /\ latent = None /\ posterior = NoDist
    /\ z_map = None /\ lr_rgb = None /\ comp_gan_rgb = None
    /\ calls = <<>> /\ ret = EmptyDict
    /\ training = [m \in Modules |-> TRUE]
    /\ base_training = TRUE
    /\ base_step = <<>>
    /\ base_log = <<>> /\ own_log = <<>>

\* ---- forward ------------------------------------------------------------
\* the arguments of a forward call on B x H x W x 3 rays
Inputs(B, H, W, has_bg, has_gt, mlg) ==
    [rays_o |-> Tensor(1, <<B, H, W, 3>>, "rays_o", {}, FALSE),
     rays_d |-> Tensor(2, <<B, H, W, 3>>, "rays_d", {}, FALSE),
     light_positions |-> Tensor(3, <<B, 3>>, "light_positions", {}, FALSE),
     bg_color |-> IF has_bg THEN Tensor(4, <<B, H, W, 3>>, "bg_color", {}, FALSE) ELSE None,
     gt_rgb |-> IF has_gt THEN Tensor(5, <<B, H, W, 3>>, "gt_rgb", {}, FALSE) ELSE None,
     multi_level_guidance |-> mlg]

\* mutant of UseRandomLevel: the test for gt_rgb is left out
UseRandomLevel_IgnoresGt(gt_rgb, multi_level_guidance) ==
    multi_level_guidance

\* mutant of UseRandomLevel: the flag is not consulted
UseRandomLevel_IgnoresFlag(gt_rgb, multi_level_guidance) ==
    gt_rgb # None

\* if gt_rgb is not None and multi_level_guidance:
UseRandomLevel(gt_rgb, multi_level_guidance) ==
    gt_rgb # None /\ multi_level_guidance

\* entry of forward and the choice of the guidance level
ForwardCall(a) ==
    /\ pc = "idle"
    /\ args' = a
    /\ dims' = <<a.rays_o.shape[1], a.rays_o.shape[2], a.rays_o.shape[3]>>
    /\ \/ /\ UseRandomLevel(a.gt_rgb, a.multi_level_guidance)
          /\ \E r \in RandInt(0, NumLevels) : generator_level' = r
          /\ draws' = 1
       \/ /\ ~UseRandomLevel(a.gt_rgb, a.multi_level_guidance)
          /\ generator_level' = 0
          /\ draws' = 0
    /\ rays_o' = a.rays_o /\ rays_d' = a.rays_d
    /\ out' = EmptyDict /\ comp_rgb' = None /\ latent' = None /\ posterior' = NoDist
    /\ z_map' = None /\ lr_rgb' = None /\ comp_gan_rgb' = None
    /\ heap' = 6
    /\ calls' = <<>> /\ ret' = EmptyDict
    /\ pc' = "downsample"
    /\ UNCHANGED lifecycle

\* mutant of LowRes: the quarter size is rounded up
LowRes_Ceil(H, W) == <<(H + Scale - 1) \div Scale, (W + Scale - 1) \div Scale>>

\* the target size of the ray downsampling
LowRes(H, W) == <<H \div Scale, W \div Scale>>

\* rays_o, rays_d = interpolate(..., (H // 4, W // 4), mode='bilinear')
Downsample ==
    /\ pc = "downsample"
    /\ InterpolateOk(Permute(rays_o, <<0, 3, 1, 2>>), LowRes(dims[2], dims[3]))
    /\ rays_o' = Permute(Interpolate(Permute(rays_o, <<0, 3, 1, 2>>),
                                     LowRes(dims[2], dims[3]), heap), <<0, 2, 3, 1>>)
    /\ rays_d' = Permute(Interpolate(Permute(rays_d, <<0, 3, 1, 2>>),
                                     LowRes(dims[2], dims[3]), heap + 1), <<0, 2, 3, 1>>)
    /\ heap' = heap + 2
    /\ pc' = "render"
    /\ UNCHANGED <<args, dims, generator_level, draws, out, comp_rgb, latent, posterior,
                   z_map, lr_rgb, comp_gan_rgb, calls, ret, lifecycle>>

\* F.interpolate raises: the error leaves forward
DownsampleRaises ==
    /\ pc = "downsample"
    /\ ~InterpolateOk(Permute(rays_o, <<0, 3, 1, 2>>), LowRes(dims[2], dims[3]))
    /\ ClearLocals
    /\ pc' = "raised"
    /\ UNCHANGED <<args, dims, generator_level, draws, heap, calls, ret, lifecycle>>

\* out = self.base_renderer(rays_o, rays_d, light_positions, bg_color, **kwargs)
BaseRender ==
    /\ pc = "render"
    /\ out' = BaseRenderer(rays_o, rays_d, args.light_positions, args.bg_color, heap)
    /\ calls' = Append(calls, Call("base_renderer",
                    <<rays_o, rays_d, args.light_positions, args.bg_color>>, out'))
    /\ heap' = heap + 3
    /\ pc' = "latent"
    /\ UNCHANGED <<args, dims, generator_level, draws, rays_o, rays_d, comp_rgb, latent,
                   posterior, z_map, lr_rgb, comp_gan_rgb, ret, lifecycle>>

\* the base renderer raises: nothing catches it
BaseRenderRaises ==
    /\ pc = "render"
    /\ calls' = Append(calls, Call("base_renderer",
                    <<rays_o, rays_d, args.light_positions, args.bg_color>>, None))
    /\ ClearLocals
    /\ pc' = "raised"
    /\ UNCHANGED <<args, dims, generator_level, draws, heap, ret, lifecycle>>

\* out["comp_gt_rgb"] = gt_rgb ... lr_rgb = comp_rgb.permute(0, 3, 1, 2).detach()
Latent ==
    /\ pc = "latent"
    /\ comp_rgb' = SliceTo(out["comp_rgb"], RGB)
    /\ latent' = SliceFrom(out["comp_rgb"], RGB)
    /\ out' = Put(Put(out, "comp_gt_rgb", args.gt_rgb), "comp_lr_rgb", Clone(comp_rgb', heap))
    /\ posterior' = DiagonalGaussianDistribution(Permute(latent', <<0, 3, 1, 2>>))
    /\ z_map' = Sample(posterior', heap + 1)
    /\ lr_rgb' = Detach(Permute(comp_rgb', <<0, 3, 1, 2>>))
    /\ calls' = Append(calls, Call("sample", <<posterior'.parameters>>, z_map'))
    /\ heap' = heap + 2
    /\ pc' = "branch"
    /\ UNCHANGED <<args, dims, generator_level, draws, rays_o, rays_d, comp_gan_rgb,
                   ret, lifecycle>>

\* mutant of Level0: the latent is sampled again from the same posterior
Level0_Resamples ==
    /\ pc = "branch" /\ generator_level = 0
    /\ LET g_in       == Interpolate(lr_rgb, <<EncRes, EncRes>>, heap)
           g_code_rgb == GlobalEncoder(g_in, heap + 1)
       IN  /\ z_map' = Sample(posterior, heap + 2)
           /\ LET x == Cat(lr_rgb, z_map', heap + 3)
              IN  /\ comp_gan_rgb' = Generator(x, g_code_rgb, heap + 4)
                  /\ calls' = calls \o <<Call("global_encoder", <<g_in>>, g_code_rgb),
                                         Call("sample", <<posterior.parameters>>, z_map'),
                                         Call("generator", <<x, g_code_rgb>>, comp_gan_rgb')>>
    /\ heap' = heap + 5
    /\ pc' = "assemble"
    /\ UNCHANGED <<args, dims, generator_level, draws, rays_o, rays_d, out, comp_rgb,
                   latent, posterior, lr_rgb, ret, lifecycle>>

\* if generator_level == 0:
Level0 ==
    /\ pc = "branch" /\ generator_level = 0
    /\ LET g_in       == Interpolate(lr_rgb, <<EncRes, EncRes>>, heap)
           g_code_rgb == GlobalEncoder(g_in, heap + 1)
           x          == Cat(lr_rgb, z_map, heap + 2)
       IN  /\ comp_gan_rgb' = Generator(x, g_code_rgb, heap + 3)
           /\ calls' = calls \o <<Call("global_encoder", <<g_in>>, g_code_rgb),
                                  Call("generator", <<x, g_code_rgb>>, comp_gan_rgb')>>
    /\ heap' = heap + 4
    /\ pc' = "assemble"
    /\ UNCHANGED <<args, dims, generator_level, draws, rays_o, rays_d, out, comp_rgb,
                   latent, posterior, z_map, lr_rgb, ret, lifecycle>>

\* mutant of Level1: the global encoder is fed the low-res rgb as at level 0
Level1_FeedsLowRes ==
    /\ pc = "branch" /\ generator_level = 1
    /\ LET g_in       == Interpolate(lr_rgb, <<EncRes, EncRes>>, heap)
           g_code_rgb == GlobalEncoder(g_in, heap + 1)
           x          == Cat(lr_rgb, z_map, heap + 2)
       IN  /\ comp_gan_rgb' = Generator(x, g_code_rgb, heap + 3)
           /\ calls' = calls \o <<Call("global_encoder", <<g_in>>, g_code_rgb),
                                  Call("generator", <<x, g_code_rgb>>, comp_gan_rgb')>>
    /\ heap' = heap + 4
    /\ pc' = "assemble"
    /\ UNCHANGED <<args, dims, generator_level, draws, rays_o, rays_d, out, comp_rgb,
                   latent, posterior, z_map, lr_rgb, ret, lifecycle>>

\* elif generator_level == 1:
Level1 ==
    /\ pc = "branch" /\ generator_level = 1
    /\ LET g_in       == Interpolate(Permute(args.gt_rgb, <<0, 3, 1, 2>>), <<EncRes, EncRes>>, heap)
           g_code_rgb == GlobalEncoder(g_in, heap + 1)
           x          == Cat(lr_rgb, z_map, heap + 2)
       IN  /\ comp_gan_rgb' = Generator(x, g_code_rgb, heap + 3)
           /\ calls' = calls \o <<Call("global_encoder", <<g_in>>, g_code_rgb),
                                  Call("generator", <<x, g_code_rgb>>, comp_gan_rgb')>>
    /\ heap' = heap + 4
    /\ pc' = "assemble"
    /\ UNCHANGED <<args, dims, generator_level, draws, rays_o, rays_d, out, comp_rgb,
                   latent, posterior, z_map, lr_rgb, ret, lifecycle>>

\* mutant of Level2: the new distribution is built but z_map is not resampled
Level2_KeepsLatent ==
    /\ pc = "branch" /\ generator_level = 2
    /\ LET g_in       == Interpolate(Permute(args.gt_rgb, <<0, 3, 1, 2>>), <<EncRes, EncRes>>, heap)
           g_code_rgb == GlobalEncoder(g_in, heap + 1)
           l_code_rgb == LocalEncoder(Permute(args.gt_rgb, <<0, 3, 1, 2>>), heap + 2)
           x          == Cat(lr_rgb, z_map, heap + 3)
       IN  /\ posterior' = DiagonalGaussianDistribution(l_code_rgb)
           /\ comp_gan_rgb' = Generator(x, g_code_rgb, heap + 4)
           /\ calls' = calls \o
                <<Call("global_encoder", <<g_in>>, g_code_rgb),
                  Call("local_encoder", <<Permute(args.gt_rgb, <<0, 3, 1, 2>>)>>, l_code_rgb),
                  Call("generator", <<x, g_code_rgb>>, comp_gan_rgb')>>
    /\ heap' = heap + 5
    /\ pc' = "assemble"
    /\ UNCHANGED <<args, dims, generator_level, draws, rays_o, rays_d, out, comp_rgb,
                   latent, z_map, lr_rgb, ret, lifecycle>>

\* mutant of Level2: the new distribution is sampled but posterior keeps
\* naming the one built from the composite
Level2_KeepsPosterior ==
    /\ pc = "branch" /\ generator_level = 2
    /\ LET g_in       == Interpolate(Permute(args.gt_rgb, <<0, 3, 1, 2>>), <<EncRes, EncRes>>, heap)
           g_code_rgb == GlobalEncoder(g_in, heap + 1)
           l_code_rgb == LocalEncoder(Permute(args.gt_rgb, <<0, 3, 1, 2>>), heap + 2)
           local      == DiagonalGaussianDistribution(l_code_rgb)
       IN  /\ z_map' = Sample(local, heap + 3)
           /\ LET x == Cat(lr_rgb, z_map', heap + 4)
              IN  /\ comp_gan_rgb' = Generator(x, g_code_rgb, heap + 5)
                  /\ calls' = calls \o
                       <<Call("global_encoder", <<g_in>>, g_code_rgb),
                         Call("local_encoder", <<Permute(args.gt_rgb, <<0, 3, 1, 2>>)>>, l_code_rgb),
                         Call("sample", <<local.parameters>>, z_map'),
                         Call("generator", <<x, g_code_rgb>>, comp_gan_rgb')>>
    /\ heap' = heap + 6
    /\ pc' = "assemble"
    /\ UNCHANGED <<args, dims, generator_level, draws, rays_o, rays_d, out, comp_rgb,
                   latent, posterior, lr_rgb, ret, lifecycle>>

\* elif generator_level == 2:
Level2 ==
    /\ pc = "branch" /\ generator_level = 2
    /\ LET g_in       == Interpolate(Permute(args.gt_rgb, <<0, 3, 1, 2>>), <<EncRes, EncRes>>, heap)
           g_code_rgb == GlobalEncoder(g_in, heap + 1)
           l_code_rgb == LocalEncoder(Permute(args.gt_rgb, <<0, 3, 1, 2>>), heap + 2)
       IN  /\ posterior' = DiagonalGaussianDistribution(l_code_rgb)
           /\ z_map' = Sample(posterior', heap + 3)
           /\ LET x == Cat(lr_rgb, z_map', heap + 4)
              IN  /\ comp_gan_rgb' = Generator(x, g_code_rgb, heap + 5)
                  /\ calls' = calls \o
                       <<Call("global_encoder", <<g_in>>, g_code_rgb),
                         Call("local_encoder", <<Permute(args.gt_rgb, <<0, 3, 1, 2>>)>>, l_code_rgb),
                         Call("sample", <<posterior'.parameters>>, z_map'),
                         Call("generator", <<x, g_code_rgb>>, comp_gan_rgb')>>
    /\ heap' = heap + 6
    /\ pc' = "assemble"
    /\ UNCHANGED <<args, dims, generator_level, draws, rays_o, rays_d, out, comp_rgb,
                   latent, lr_rgb, ret, lifecycle>>

\* the size comp_rgb is resized to before it is returned
FullRes(H, W) == <<H, W>>

\* mutant of Assemble: a new dict is returned instead of updating out
Assemble_FreshDict ==
    /\ pc = "assemble"
    /\ LET up == Interpolate(Permute(comp_rgb, <<0, 3, 1, 2>>), FullRes(dims[2], dims[3]), heap)
       IN  ret' = Put(Put(Put(Put(EmptyDict,
                    "posterior", posterior),
                    "comp_gan_rgb", Permute(comp_gan_rgb, <<0, 2, 3, 1>>)),
                    "comp_rgb", Permute(up, <<0, 2, 3, 1>>)),
                    "generator_level", generator_level)
    /\ heap' = heap + 1
    /\ ClearLocals
    /\ pc' = "returned"
    /\ UNCHANGED <<args, dims, generator_level, draws, calls, lifecycle>>

\* comp_rgb = F.interpolate(...); out.update({...}); return out
Assemble ==
    /\ pc = "assemble"
    /\ LET up == Interpolate(Permute(comp_rgb, <<0, 3, 1, 2>>), FullRes(dims[2], dims[3]), heap)
       IN  ret' = Put(Put(Put(Put(out,
                    "posterior", posterior),
                    "comp_gan_rgb", Permute(comp_gan_rgb, <<0, 2, 3, 1>>)),
                    "comp_rgb", Permute(up, <<0, 2, 3, 1>>)),
                    "generator_level", generator_level)
    /\ heap' = heap + 1
    /\ ClearLocals
    /\ pc' = "returned"
    /\ UNCHANGED <<args, dims, generator_level, draws, calls, lifecycle>>

\* forward has returned or raised: the caller takes the record (or the
\* exception) and the call's frame is gone
Done ==
    /\ pc \in {"returned", "raised"}
    /\ args' = NoArgs /\ dims' = <<0, 0, 0>> /\ draws' = 0 /\ heap' = 1
    /\ calls' = <<>> /\ ret' = EmptyDict
    /\ pc' = "idle"
    /\ UNCHANGED <<generator_level, locals, lifecycle>>

\* ---- lifecycle ----------------------------------------------------------
\* what base_renderer does with the lifecycle calls it receives
BaseUpdateStep(epoch, global_step, on_load_weights) ==
    /\ base_step' = <<epoch, global_step, on_load_weights>>
    /\ base_log' = Append(base_log, <<"update_step", epoch, global_step, on_load_weights>>)
    /\ UNCHANGED base_training

BaseTrain(mode) ==
    /\ base_training' = mode
    /\ base_log' = Append(base_log, <<"train", mode>>)
    /\ UNCHANGED base_step

BaseEval ==
    /\ base_training' = FALSE
    /\ base_log' = Append(base_log, <<"eval">>)
    /\ UNCHANGED base_step

\* def update_step(self, epoch, global_step, on_load_weights=False)
UpdateStep(epoch, global_step, on_load_weights) ==
    /\ pc = "idle" /\ Len(own_log) < MaxCalls
    /\ own_log' = Append(own_log, <<"update_step", epoch, global_step, on_load_weights>>)
    /\ BaseUpdateStep(epoch, global_step, on_load_weights)
    /\ UNCHANGED <<training, frame>>

\* mutant of Train: nn.Module.train is applied to the orchestrator as well
Train_Super(mode) ==
    /\ pc = "idle" /\ Len(own_log) < MaxCalls
    /\ own_log' = Append(own_log, <<"train", mode>>)
    /\ BaseTrain(mode)
    /\ training' = [m \in Modules |-> mode]
    /\ UNCHANGED frame

\* def train(self, mode=True)
Train(mode) ==
    /\ pc = "idle" /\ Len(own_log) < MaxCalls
    /\ own_log' = Append(own_log, <<"train", mode>>)
    /\ BaseTrain(mode)
    /\ UNCHANGED <<training, frame>>

\* def eval(self)
Eval ==
    /\ pc = "idle" /\ Len(own_log) < MaxCalls
    /\ own_log' = Append(own_log, <<"eval">>)
    /\ BaseEval
    /\ UNCHANGED <<training, frame>>

\* ---- specifications ----------------------------------------------------
\* every forward call the model draws
AllInputs ==
    {Inputs(B, H, W, has_bg, has_gt, mlg) :
        B \in 1 .. MaxB, H \in 1 .. MaxH, W \in 1 .. MaxH,
        has_bg \in BOOLEAN, has_gt \in BOOLEAN, mlg \in BOOLEAN}

ForwardNext ==
    \/ \E a \in AllInputs : ForwardCall(a)
    \/ Downsample
    \/ DownsampleRaises
    \/ BaseRender
    \/ BaseRenderRaises
    \/ Latent
    \/ Level0
    \/ Level1
    \/ Level2
    \/ Assemble
    \/ Done

LifecycleNext ==
    \/ \E g \in Steps, o \in BOOLEAN : UpdateStep(0, g, o)
    \/ \E mode \in BOOLEAN : Train(mode)
    \/ Eval

\* forward calls, one after the other
Spec == Init /\ [][ForwardNext]_vars

\* update_step / train / eval calls
LifecycleSpec == Init /\ [][LifecycleNext]_vars

\* ---- helpers of the properties ------------------------------------------
\* positions in calls of the calls to collaborator fn
CallsTo(fn) == {i \in DOMAIN calls : calls[i].fn = fn}

\* the call has got past the guidance-level branch
PastBranch == pc \in {"assemble", "returned"}

\* the composite tensor the base renderer returned in this call
Composite == calls[1].res["comp_rgb"]

\* the one call of the generator (defined when there is exactly one)
GenCall == calls[CHOOSE i \in CallsTo("generator") : TRUE]

\* the posterior.sample() calls whose result is part of the generator's input
FedSamples == {i \in CallsTo("sample") : calls[i].res.buf \in GenCall.args[1].of}

\* the distribution parameters are the channels [3:] of the composite
FromComposite(t) == t.buf = Composite.buf /\ t.off = RGB

\* the levels the code may choose for arguments a
Permitted(a) ==
    IF a.gt_rgb # None /\ a.multi_level_guidance THEN {0, 1, 2} ELSE {0}

\* ---- C1 -----------------------------------------------------------------
\* C1: in every forward call without gt_rgb the guidance level is 0 whatever
\* multi_level_guidance is, no random level is drawn, and neither encoder is
\* ever run on ground truth (no level-1 or level-2 branch is executed).
C1_AbsentGtForcesLevel0 ==
    (pc # "idle" /\ args.gt_rgb = None) =>
        /\ generator_level = 0
        /\ draws = 0
        /\ CallsTo("local_encoder") = {}
        /\ \A i \in CallsTo("global_encoder") : calls[i].args[1].of = {Composite.buf}

C1_Witness ==
    /\ pc = "returned"
    /\ args.gt_rgb = None /\ args.multi_level_guidance
    /\ ret["generator_level"] = 0

\* ---- C2 -----------------------------------------------------------------
\* C2: the guidance level is always in {0,1,2}; it is drawn at random exactly
\* when gt_rgb is present and multi_level_guidance is true, and is 0 in every
\* other case; and whatever the level of the earlier call was, every level
\* the arguments of the next call permit can be chosen by it.
C2_LevelPossible(a, l) == ENABLED (ForwardCall(a) /\ generator_level' = l)

C2_LevelChoice ==
    /\ generator_level \in {0, 1, 2}
    /\ pc # "idle" =>
          /\ draws = (IF args.gt_rgb # None /\ args.multi_level_guidance THEN 1 ELSE 0)
          /\ generator_level \in Permitted(args)
    /\ pc = "idle" =>
          \A a \in AllInputs : \A l \in {0, 1, 2} :
              C2_LevelPossible(a, l) <=> l \in Permitted(a)

\* a call that drew level 2 has ended and the next call is about to be made
C2_Witness ==
    /\ pc = "idle" /\ generator_level = 2
    /\ \E a \in AllInputs : C2_LevelPossible(a, 0) /\ C2_LevelPossible(a, 1)

\* ---- C3 -----------------------------------------------------------------
\* C3: the level decides which encoders run and on what: level 0 runs the
\* global encoder once on the detached low-res rgb of the renderer and no
\* local encoder; level 1 runs the global encoder once on gt_rgb, never on
\* the low-res rgb, and no local encoder; level 2 runs the global and the
\* local encoder once each, both on gt_rgb.
C3_EncodersByLevel ==
    PastBranch =>
        /\ Cardinality(CallsTo("global_encoder")) = 1
        /\ \A i \in CallsTo("global_encoder") :
              LET x == calls[i].args[1] IN
              /\ x.op = "interpolate" /\ x.shape[3] = EncRes /\ x.shape[4] = EncRes
              /\ generator_level = 0 => x.of = {Composite.buf} /\ ~x.grad
              /\ generator_level \in {1, 2} =>
                    x.of = {args.gt_rgb.buf} /\ Composite.buf \notin x.of
        /\ generator_level \in {0, 1} => CallsTo("local_encoder") = {}
        /\ generator_level = 2 =>
              /\ Cardinality(CallsTo("local_encoder")) = 1
              /\ \A i \in CallsTo("local_encoder") : calls[i].args[1].buf = args.gt_rgb.buf

C3_Witness ==
    /\ pc = "returned" /\ generator_level = 1
    /\ \E i \in CallsTo("global_encoder") : calls[i].args[1].of = {args.gt_rgb.buf}

\* ---- C4 -----------------------------------------------------------------
\* C4: the latent concatenated with the low-res rgb for the generator is, at
\* level 2, the sample of the distribution built from the local encoder's
\* output on gt_rgb and not the sample of the distribution built from the
\* composite's channels [3:]; at levels 0 and 1 it is the latter.
C4_LatentFedToGenerator ==
    PastBranch =>
        /\ Cardinality(CallsTo("generator")) = 1
        /\ Composite.buf \in GenCall.args[1].of
        /\ Cardinality(FedSamples) = 1
        /\ \A i \in FedSamples :
              /\ GenCall.args[1].of = {Composite.buf, calls[i].res.buf}
              /\ generator_level = 2 =>
                    /\ \E j \in CallsTo("local_encoder") :
                          /\ calls[i].args[1] = calls[j].res
                          /\ calls[j].args[1].buf = args.gt_rgb.buf
                    /\ ~FromComposite(calls[i].args[1])
              /\ generator_level \in {0, 1} => FromComposite(calls[i].args[1])

C4_Witness ==
    /\ pc = "returned" /\ generator_level = 2
    /\ \E i \in FedSamples : calls[i].args[1].op = "local_encoder"

\* ---- C5 -----------------------------------------------------------------
\* C5: the record a forward call returns has the keys comp_lr_rgb,
\* comp_gan_rgb, comp_gt_rgb, posterior and generator_level and every key of
\* the base renderer's record; comp_gt_rgb is the gt_rgb argument as given
\* (None when absent), generator_level is the level whose branch was
\* executed, and every base-renderer key the orchestrator does not write
\* keeps the base renderer's value.
OwnKeys == {"comp_lr_rgb", "comp_gan_rgb", "comp_gt_rgb", "posterior", "generator_level"}

WrittenKeys == OwnKeys \cup {"comp_rgb"}

\* the level whose branch the recorded calls are those of
ExecutedLevel ==
    IF CallsTo("local_encoder") # {} THEN 2
    ELSE IF \E i \in CallsTo("global_encoder") : calls[i].args[1].of = {Composite.buf}
         THEN 0 ELSE 1

C5_ReturnedRecord ==
    pc = "returned" =>
        /\ OwnKeys \subseteq DOMAIN ret
        /\ DOMAIN calls[1].res \subseteq DOMAIN ret
        /\ ret["comp_gt_rgb"] = args.gt_rgb
        /\ ret["generator_level"] = generator_level
        /\ ret["generator_level"] = ExecutedLevel
        /\ \A k \in (DOMAIN calls[1].res) \ WrittenKeys : ret[k] = calls[1].res[k]

C5_Witness ==
    /\ pc = "returned" /\ args.gt_rgb # None /\ ret["generator_level"] = 2
    /\ ret["comp_gt_rgb"] = args.gt_rgb
    /\ "depth" \in DOMAIN ret /\ ret["depth"] = calls[1].res["depth"]

\* ---- C6 -----------------------------------------------------------------
\* C6: in the returned record, at every level, comp_lr_rgb shares its buffer
\* neither with comp_gan_rgb nor with the base renderer's composite tensor
\* nor with the upsampled comp_rgb: a write to one of them leaves the others
\* as they were.
C6_NoAliasing ==
    pc = "returned" =>
        /\ ret["comp_lr_rgb"].buf # ret["comp_gan_rgb"].buf
        /\ ret["comp_lr_rgb"].buf # Composite.buf
        /\ ret["comp_lr_rgb"].buf # ret["comp_rgb"].buf

C6_Witness ==
    /\ pc = "returned"
    /\ ret["comp_lr_rgb"].op = "clone" /\ ret["comp_lr_rgb"].of = {Composite.buf}
    /\ ret["comp_gan_rgb"].op = "generator"

\* ---- C7 -----------------------------------------------------------------
\* what C7 says of a forward call that has ended: the base renderer was
\* called with rays of size floor(H/4) x floor(W/4), the only error that can
\* have ended the call is the base renderer's, and a returned comp_rgb has
\* the shape B x H x W x 3
C7_Shapes ==
    /\ calls # <<>>
    /\ calls[1].fn = "base_renderer"
    /\ calls[1].args[1].shape = <<dims[1], dims[2] \div 4, dims[3] \div 4, 3>>
    /\ calls[1].args[2].shape = <<dims[1], dims[2] \div 4, dims[3] \div 4, 3>>
    /\ pc = "returned" => ret["comp_rgb"].shape = <<dims[1], dims[2], dims[3], 3>>

\* C7 as claimed: for every input of shape B x H x W x 3, divisible by 4 or
\* not, the base renderer is called at floor(H/4) x floor(W/4), no error
\* comes from the resizing, and the returned comp_rgb is B x H x W x 3.
C7_Original ==
    pc \in {"returned", "raised"} => C7_Shapes

\* C7 as amended: the same for every input with H >= 4 and W >= 4.
C7_ShapeRoundTrip ==
    (pc \in {"returned", "raised"} /\ dims[2] >= 4 /\ dims[3] >= 4) => C7_Shapes

C7_Witness ==
    /\ pc = "returned"
    /\ dims[2] % 4 # 0 /\ dims[3] % 4 # 0 /\ dims[2] # dims[3]
    /\ ret["comp_rgb"].shape = <<dims[1], dims[2], dims[3], 3>>

\* ---- C8 -----------------------------------------------------------------
\* the training mode a module is in after the train / eval calls of log,
\* starting from mode m
RECURSIVE ModeAfter(_, _)
ModeAfter(log, m) ==
    IF log = <<>> THEN m
    ELSE ModeAfter(Tail(log),
                   IF Head(log)[1] = "train" THEN Head(log)[2]
                   ELSE IF Head(log)[1] = "eval" THEN FALSE ELSE m)

\* the arguments of the last update_step call of log, s if there is none
RECURSIVE StepAfter(_, _)
StepAfter(log, s) ==
    IF log = <<>> THEN s
    ELSE StepAfter(Tail(log),
                   IF Head(log)[1] = "update_step" THEN Tail(Head(log)) ELSE s)

\* C8: after any sequence of update_step, train and eval calls the base
\* renderer has received the same calls in the same order with the same
\* arguments, so that its mode is that of the last train / eval and its step
\* state that of the last update_step, while the training flags of the
\* orchestrator, generator, local encoder, global encoder and discriminator
\* are what they were at construction.
C8_LifecycleDelegated ==
    /\ base_log = own_log
    /\ base_training = ModeAfter(own_log, TRUE)
    /\ base_step = StepAfter(own_log, <<>>)
    /\ training = [m \in Modules |-> TRUE]

C8_Witness ==
    /\ Len(own_log) = 3
    /\ own_log[1] = <<"update_step", 0, 1, TRUE>>
    /\ own_log[2][1] = "eval"
    /\ own_log[3][1] = "update_step"
    /\ ~base_training /\ training["self"]

\* ---- C9 -----------------------------------------------------------------
\* C9: in a forward call the base renderer is the first collaborator called
\* and is called once; once the branch is done the distribution built from
\* the composite's channels [3:] has been sampled exactly once and the
\* generator has been called exactly once, after the encoders; when the base
\* renderer raises, the call ends with that error, nothing else has been
\* called and no record is returned.
C9_CallOrder ==
    /\ calls # <<>> => CallsTo("base_renderer") = {1}
    /\ PastBranch =>
          /\ Cardinality({i \in CallsTo("sample") : FromComposite(calls[i].args[1])}) = 1
          /\ CallsTo("generator") = {Len(calls)}
          /\ \A i \in CallsTo("global_encoder") \cup CallsTo("local_encoder") :
                1 < i /\ i < Len(calls)
    /\ (calls # <<>> /\ calls[1].res = None) =>
          /\ Len(calls) = 1
          /\ pc \in {"raised", "idle"}
          /\ ret = EmptyDict
    /\ pc = "raised" => ret = EmptyDict

C9_Witness ==
    /\ pc = "returned" /\ generator_level = 2
    /\ Len(calls) = 6
    /\ calls[2].fn = "sample" /\ calls[6].fn = "generator"

\* the base renderer has raised
C9_WitnessRaised ==
    pc = "raised" /\ Len(calls) = 1 /\ calls[1].res = None

\* ---- C10 ----------------------------------------------------------------
\* C10: the posterior of the returned record is the distribution whose
\* sample was given to the generator: the one built from the composite at
\* levels 0 and 1, the one built from the local encoder's output (and not
\* the composite's) at level 2.
C10_ReturnedPosterior ==
    pc = "returned" =>
        /\ \A i \in FedSamples : ret["posterior"].parameters = calls[i].args[1]
        /\ FedSamples # {}
        /\ generator_level \in {0, 1} => FromComposite(ret["posterior"].parameters)
        /\ generator_level = 2 =>
              /\ ret["posterior"].parameters.op = "local_encoder"
              /\ ret["posterior"].parameters.of = {args.gt_rgb.buf}
              /\ ~FromComposite(ret["posterior"].parameters)

C10_Witness ==
    /\ pc = "returned" /\ generator_level = 2
    /\ ret["posterior"].parameters.op = "local_encoder"

====
